---------------------------- MODULE Spec2Model ----------------------------
(***************************************************************************)
(* Model of convert_table (src/convert_table.py): the C header             *)
(* libunicode-table.h is read as a list of lines and rewritten, line by    *)
(* line, into Rust array declarations.                                     *)
(*                                                                         *)
(* Text is a sequence of one-character strings.  The content of the input  *)
(* and output resources is the text the Python text layer reads and        *)
(* writes; "\n" is the only line terminator that occurs in it (universal   *)
(* newline translation has already happened on the way in).                *)
(***************************************************************************)
EXTENDS Integers, Sequences, FiniteSets, TLC

VARIABLES
    inputText,  \* content of the input resource (input_path)
    outFile,    \* content of the output resource (output_path)
    lines,      \* the list returned by f.readlines()
    idx,        \* 1-based position of the for loop in lines
    pc,         \* position of convert_table in its body
    err         \* which open/read raised, "" while none has

vars == <<inputText, outFile, lines, idx, pc, err>>

(***************************************************************************)
(* Text helpers                                                            *)
(***************************************************************************)

\* A Python str literal as a sequence of characters.
Chars(s) == [i \in 1..Len(s) |-> SubSeq(s, i, i)]

\* Characters str.rstrip()/str.strip() remove and \s matches.
Space == {" ", "\t", "\n", "\r", "\f"}

LowerLetters == Chars("abcdefghijklmnopqrstuvwxyz")
UpperLetters == Chars("ABCDEFGHIJKLMNOPQRSTUVWXYZ")

\* Characters \d matches.
Digit == {"0", "1", "2", "3", "4", "5", "6", "7", "8", "9"}

\* Characters \w matches.
Word == {LowerLetters[i] : i \in 1..Len(LowerLetters)}
        \cup {UpperLetters[i] : i \in 1..Len(UpperLetters)}
        \cup Digit \cup {"_"}

RECURSIVE Concat(_)
\* "".join(seq)
Concat(ss) == IF ss = <<>> THEN <<>> ELSE Head(ss) \o Concat(Tail(ss))

RECURSIVE SkipWhile(_, _, _)
\* First position j >= i of s that holds no character of class C
\* (Len(s) + 1 when there is none): where a greedy C* starting at i stops.
SkipWhile(s, i, C) ==
    IF i <= Len(s) /\ s[i] \in C THEN SkipWhile(s, i + 1, C) ELSE i

\* Variant of RStrip: only the line terminator is removed, as
\* line.rstrip("\n") would.
RStripNewline(s) ==
    IF s # <<>> /\ s[Len(s)] = "\n" THEN SubSeq(s, 1, Len(s) - 1) ELSE s

RECURSIVE RStrip(_)
\* str.rstrip()
RStrip(s) ==
    IF s # <<>> /\ s[Len(s)] \in Space THEN RStrip(SubSeq(s, 1, Len(s) - 1))
    ELSE s

\* str.lstrip()
LStrip(s) == SubSeq(s, SkipWhile(s, 1, Space), Len(s))

\* str.strip()
Strip(s) == LStrip(RStrip(s))

\* str.startswith(p)
StartsWith(s, p) == Len(s) >= Len(p) /\ SubSeq(s, 1, Len(p)) = p

\* Variant of Upper: the identifier is used as it was read.
UpperKeep(s) == s

\* str.upper() of one character
UpperChar(c) ==
    IF \E i \in 1..Len(LowerLetters) : LowerLetters[i] = c
    THEN UpperLetters[CHOOSE i \in 1..Len(LowerLetters) : LowerLetters[i] = c]
    ELSE c

\* name.upper()
Upper(s) == [i \in 1..Len(s) |-> UpperChar(s[i])]

RECURSIVE ReadLines(_)
\* f.readlines(): the text cut after every "\n", terminators kept; a last
\* line without terminator is a line too.
ReadLines(text) ==
    IF text = <<>> THEN <<>>
    ELSE LET e == SkipWhile(text, 1, STRING \ {"\n"})
             n == IF e <= Len(text) THEN e ELSE Len(text)
         IN  <<SubSeq(text, 1, n)>> \o ReadLines(SubSeq(text, n + 1, Len(text)))

(***************************************************************************)
(* The regular expression of line 25                                       *)
(***************************************************************************)

STATIC == Chars("static")
CONST  == Chars("const")

NoMatch == [ok |-> FALSE, ctype |-> <<>>, name |-> <<>>, size |-> <<>>, end |-> 0]

\* The pattern r'static\s+const\s+(\w+)\s+(\w+)\[(\d*)\]\s*=\s*\{' tried at
\* position p of s, free at the end.  Every repetition is followed by a
\* character outside its own class, so the greedy match is the only one and
\* no backtracking can find another.  end is match.end(), as the 1-based
\* position of the "{".
MatchAt(s, p) ==
    LET n  == Len(s)
        At(i, c)  == i <= n /\ s[i] = c
        Lit(i, w) == i + Len(w) - 1 <= n /\ SubSeq(s, i, i + Len(w) - 1) = w
        a1  == p + Len(STATIC)
        a2  == SkipWhile(s, a1, Space)
        a3  == a2 + Len(CONST)
        a4  == SkipWhile(s, a3, Space)
        a5  == SkipWhile(s, a4, Word)
        a6  == SkipWhile(s, a5, Space)
        a7  == SkipWhile(s, a6, Word)
        a8  == SkipWhile(s, a7 + 1, Digit)
        a9  == SkipWhile(s, a8 + 1, Space)
        a10 == SkipWhile(s, a9 + 1, Space)
        ok  == /\ Lit(p, STATIC)
               /\ a2 > a1
               /\ Lit(a2, CONST)
               /\ a4 > a3
               /\ a5 > a4
               /\ a6 > a5
               /\ a7 > a6
               /\ At(a7, "[")
               /\ At(a8, "]")
               /\ At(a9, "=")
               /\ At(a10, "{")
    IN  IF ok
        THEN [ok |-> TRUE, ctype |-> SubSeq(s, a4, a5 - 1),
              name |-> SubSeq(s, a6, a7 - 1), size |-> SubSeq(s, a7 + 1, a8 - 1),
              end |-> a10]
        ELSE NoMatch

\* A pattern that also accepts leading white space, as re.match(r'\s*static...')
\* would.
ReMatchLoose(s) == MatchAt(s, SkipWhile(s, 1, Space))

\* re.match(pattern, s): the pattern is tried at the start of s only.
ReMatch(s) == MatchAt(s, 1)

(***************************************************************************)
(* The body of the for loop, lines 16-59                                   *)
(***************************************************************************)

\* Variant of RustType: the branches of the signed types are missing.
RustTypeUnsigned(ctype) ==
    IF ctype = Chars("uint32_t") THEN Chars("u32")
    ELSE IF ctype = Chars("uint16_t") THEN Chars("u16")
    ELSE IF ctype = Chars("uint8_t") THEN Chars("u8")
    ELSE Chars("u32")

\* lines 31-43
RustType(ctype) ==
    IF ctype = Chars("uint32_t") THEN Chars("u32")
    ELSE IF ctype = Chars("uint16_t") THEN Chars("u16")
    ELSE IF ctype = Chars("uint8_t") THEN Chars("u8")
    ELSE IF ctype = Chars("int32_t") THEN Chars("i32")
    ELSE IF ctype = Chars("int16_t") THEN Chars("i16")
    ELSE IF ctype = Chars("int8_t") THEN Chars("i8")
    ELSE Chars("u32")

\* Variant of DeclText: the size is formatted without the test of line 47.
DeclTextSized(rust_name, rust_type, size) ==
    Chars("pub const ") \o rust_name \o Chars(": [") \o rust_type
    \o Chars("; ") \o size \o Chars("] = [\n")

\* lines 47-54: the text written for a matched declaration
DeclText(rust_name, rust_type, size) ==
    IF size # <<>>
    THEN Chars("pub const ") \o rust_name \o Chars(": [") \o rust_type
         \o Chars("; ") \o size \o Chars("] = [\n")
    ELSE Chars("pub const ") \o rust_name \o Chars(": [") \o rust_type
         \o Chars("; _] = [\n")

\* Variant of IsDirective: the "#" may be indented.
IsDirectiveIndented(line) == StartsWith(LStrip(line), Chars("#"))

\* line 17: line.startswith("#")
IsDirective(line) == StartsWith(line, Chars("#"))

\* line 19: line.strip() == ""
IsBlank(line) == Strip(line) = <<>>

\* Variant of IsClose: the comparison misses the semicolon.
IsCloseBrace(line) == line = Chars("}")

\* line 55: line == "};"
IsClose(line) == line = Chars("};")

\* Variant of Rewrite that keeps track of the array body: a closing line is
\* rewritten only while a declaration seen earlier is still open.
RewriteTracking(raw) ==
    LET line == RStrip(raw)
        match == ReMatch(line)
        inArray == \E j \in 1..(idx - 1) :
                      /\ ReMatch(RStrip(lines[j])).ok
                      /\ \A k \in (j + 1)..(idx - 1) : ~IsClose(RStrip(lines[k]))
    IN  IF IsDirective(line) THEN <<>>
        ELSE IF IsBlank(line) THEN Chars("\n")
        ELSE IF match.ok
             THEN DeclText(Upper(match.name), RustType(match.ctype), match.size)
        ELSE IF IsClose(line) /\ inArray THEN Chars("];\n")
        ELSE line \o Chars("\n")

\* lines 16-59: everything one iteration of the loop writes to f for the
\* element raw of lines.
Rewrite(raw) ==
    LET line == RStrip(raw)
        match == ReMatch(line)
    IN  IF IsDirective(line) THEN <<>>
        ELSE IF IsBlank(line) THEN Chars("\n")
        ELSE IF match.ok
             THEN DeclText(Upper(match.name), RustType(match.ctype), match.size)
        ELSE IF IsClose(line) THEN Chars("];\n")
        ELSE line \o Chars("\n")

\* Variant of Header: the second directive ends with a single "\n".
HeaderTight == Chars("#![allow(dead_code)]\n") \o Chars("#![allow(non_upper_case_globals)]\n")

\* lines 12-13: what is written before the loop
Header == Chars("#![allow(dead_code)]\n") \o Chars("#![allow(non_upper_case_globals)]\n\n")

(***************************************************************************)
(* Input files                                                             *)
(***************************************************************************)

\* Number of context lines in front of the line under study.
MaxPre == 1

\* The example of the specification.
ScenarioLines ==
    << "static const uint8_t case_conv_table1[378] = {", "1,2,3,", "};" >>

TypeTokens ==
    { "uint32_t", "uint16_t", "uint8_t", "int32_t", "int16_t", "int8_t",
      "int", "UINT8_T", "uint64_t", "u8" }

Decl(ty, nm, sz, tail) ==
    "static const " \o ty \o " " \o nm \o "[" \o sz \o "] = {" \o tail

DeclLines ==
    {Decl(ty, "tbl_1", sz, "") : ty \in TypeTokens, sz \in {"", "378"}}
    \cup {Decl("uint8_t", nm, sz, "") : nm \in {"TBL", "aB"}, sz \in {"", "07"}}
    \cup {Decl("int16_t", "t", sz, tail) :
             sz \in {"", "2"}, tail \in {" 1, 2 };", " // x", " \t", "};"}}
    \cup { "static\t const  uint8_t\tt[3]=\t{", "static const int8_t t[3]  =  {",
           "static const const t[3] = {" }

NearDeclLines ==
    { " static const uint8_t t[3] = {", "\tstatic const uint8_t t[] = {",
      "static const unsigned int t[3] = {", "static const uint8_t t[3];",
      "const uint8_t t[3] = {", "static const uint8_t t[n] = {",
      "staticconst uint8_t t[3] = {", "static const uint8_t t [3] = {",
      "static const uint8_t t[3] =", "Static const uint8_t t[3] = {",
      "static const uint8_t t[3] {", "static const uint8_t* t[3] = {" }

OtherLines ==
    { "1,2,3,", "  0x1, 2", "1, ", "\t2, 3,  ", "7,\t ", "\t1", "// c", "/* # */", "}", "};x",
      "} ;", "x};",
      "};", "}; ", " };", "\t};\t",
      "#include <x.h>", "#", " #if 1", "#define X 1 ", "#};",
      "", " ", "\t " }

\* Lines put around the line under study.
ContextLines == { "static const uint16_t t[2] = {", "};", "#if 1", "1,2,3," }

StudyLines == DeclLines \cup NearDeclLines \cup OtherLines

RECURSIVE SeqsUpTo(_, _)
SeqsUpTo(S, n) ==
    IF n = 0 THEN {<<>>}
    ELSE LET shorter == SeqsUpTo(S, n - 1)
         IN  shorter \cup {Append(q, x) : q \in shorter, x \in S}

\* The lines of the input files, each without its terminator.
InputLineLists ==
    {ScenarioLines}
    \cup {pre \o <<l>> \o post : pre \in SeqsUpTo(ContextLines, MaxPre),
                                 l \in StudyLines,
                                 post \in {<<>>} \cup {<<c>> : c \in ContextLines}}

\* The file with these lines: every line is terminated, the last one only if
\* finalNewline.
FileText(ls, finalNewline) ==
    LET t == Concat([i \in 1..Len(ls) |-> Chars(ls[i]) \o Chars("\n")])
    IN  IF finalNewline \/ t = <<>> THEN t ELSE SubSeq(t, 1, Len(t) - 1)

InputFiles ==
    {<<>>} \cup {FileText(ls, nl) : ls \in InputLineLists, nl \in BOOLEAN}

\* What the output resource holds before the run.
OldContent == Chars("// old\n")

(***************************************************************************)
(* convert_table                                                           *)
(***************************************************************************)

Init ==
    /\ inputText \in InputFiles
    /\ outFile = OldContent
    /\ lines = <<>>
    /\ idx = 1
    /\ pc = "start"
    /\ err = ""

\* lines 8-9: open(input_path, 'r') and f.readlines() succeed
ReadInput ==
    /\ pc = "start"
    /\ lines' = ReadLines(inputText)
    /\ pc' = "read"
    /\ UNCHANGED <<inputText, outFile, idx, err>>

\* Variant of ReadFail: both resources are opened by one with statement, so
\* the output is already truncated when the read raises.
ReadFailTruncating ==
    /\ pc = "start"
    /\ \E e \in {"input missing", "input unreadable"} : err' = e
    /\ pc' = "failed"
    /\ outFile' = <<>>
    /\ UNCHANGED <<inputText, lines, idx>>

\* lines 8-9: open raises (no such file, no permission) or readlines raises
\* (undecodable bytes); the exception leaves convert_table.
ReadFail ==
    /\ pc = "start"
    /\ \E e \in {"input missing", "input unreadable"} : err' = e
    /\ pc' = "failed"
    /\ UNCHANGED <<inputText, outFile, lines, idx>>

\* line 11: open(output_path, 'w') succeeds and truncates the resource
OpenOutput ==
    /\ pc = "read"
    /\ outFile' = <<>>
    /\ pc' = "header"
    /\ UNCHANGED <<inputText, lines, idx, err>>

\* line 11: open raises (output location not writable)
OpenFail ==
    /\ pc = "read"
    /\ err' = "output unwritable"
    /\ pc' = "failed"
    /\ UNCHANGED <<inputText, outFile, lines, idx>>

\* lines 12-13
WriteHeader ==
    /\ pc = "header"
    /\ outFile' = outFile \o Header
    /\ idx' = 1
    /\ pc' = "loop"
    /\ UNCHANGED <<inputText, lines, err>>

\* lines 15-59: one iteration of the loop
ProcessLine ==
    /\ pc = "loop"
    /\ idx <= Len(lines)
    /\ outFile' = outFile \o Rewrite(lines[idx])
    /\ idx' = idx + 1
    /\ UNCHANGED <<inputText, lines, pc, err>>

\* the loop is exhausted and the with block closes f
Close ==
    /\ pc = "loop"
    /\ idx > Len(lines)
    /\ pc' = "done"
    /\ UNCHANGED <<inputText, outFile, lines, idx, err>>

Next ==
    \/ ReadInput
    \/ ReadFail
    \/ OpenOutput
    \/ OpenFail
    \/ WriteHeader
    \/ ProcessLine
    \/ Close

Spec == Init /\ [][Next]_vars

TypeOK ==
    /\ pc \in {"start", "read", "header", "loop", "done", "failed"}
    /\ idx \in 1..(Len(lines) + 1)

(***************************************************************************)
(* Vocabulary of the properties.  It is stated on the text of a line and   *)
(* shares no definition with the loop body above except the pattern.       *)
(***************************************************************************)

\* The text of an element of lines: the element without its terminator.
Content(raw) ==
    IF raw # <<>> /\ raw[Len(raw)] = "\n" THEN SubSeq(raw, 1, Len(raw) - 1) ELSE raw

AllSpace(s) == \A i \in 1..Len(s) : s[i] \in Space

\* s without its trailing white space
TrailTrim(s) ==
    SubSeq(s, 1, CHOOSE k \in 0..Len(s) :
                    /\ \A i \in (k + 1)..Len(s) : s[i] \in Space
                    /\ k = 0 \/ s[k] \notin Space)

\* s without its leading white space
LeadTrim(s) ==
    SubSeq(s, CHOOSE k \in 1..(Len(s) + 1) :
                 /\ \A i \in 1..(k - 1) : s[i] \in Space
                 /\ k = Len(s) + 1 \/ s[k] \notin Space,
           Len(s))

\* s without leading and trailing white space
Trim(s) == LeadTrim(TrailTrim(s))

BeginsWithHash(s) == s # <<>> /\ s[1] = "#"

\* The upper-cased form of an identifier.
UpperCased(s) ==
    [i \in 1..Len(s) |->
        IF \E k \in 1..Len(LowerLetters) : LowerLetters[k] = s[i]
        THEN UpperLetters[CHOOSE k \in 1..Len(LowerLetters) : LowerLetters[k] = s[i]]
        ELSE s[i]]

\* The fixed table of element types.
TypeTable ==
    { <<"uint32_t", "u32">>, <<"uint16_t", "u16">>, <<"uint8_t", "u8">>,
      <<"int32_t", "i32">>, <<"int16_t", "i16">>, <<"int8_t", "i8">> }

Recognized(tok) == \E e \in TypeTable : Chars(e[1]) = tok

MappedType(tok) ==
    IF Recognized(tok)
    THEN Chars((CHOOSE e \in TypeTable : Chars(e[1]) = tok)[2])
    ELSE Chars("u32")

\* The declaration-open line of the target language.
PubConst(name, type, length) ==
    Chars("pub const ") \o name \o Chars(": [") \o type \o Chars("; ")
    \o length \o Chars("] = [")

\* The rewritten form of a line, as a function of the text of that line only.
Image(c) ==
    LET m == ReMatch(c)
    IN  IF BeginsWithHash(c) THEN <<>>
        ELSE IF AllSpace(c) THEN Chars("\n")
        ELSE IF m.ok
             THEN PubConst(UpperCased(m.name), MappedType(m.ctype),
                           IF m.size = <<>> THEN Chars("_") ELSE m.size)
                  \o Chars("\n")
        ELSE IF TrailTrim(c) = Chars("};") THEN Chars("];\n")
        ELSE TrailTrim(c) \o Chars("\n")

\* Number of line terminators in a text.
NumLines(t) == Cardinality({i \in 1..Len(t) : t[i] = "\n"})

\* The field of a written declaration between its "[" and its ";".
TypeField(w) ==
    LET a == SkipWhile(w, 1, STRING \ {"["})
        b == SkipWhile(w, a, STRING \ {";"})
    IN  SubSeq(w, a + 1, b - 1)

\* The loop takes one step, on the line Cur, and writes Written.
Step == pc = "loop" /\ idx <= Len(lines) /\ idx' = idx + 1
Cur == Content(lines[idx])
Appends == StartsWith(outFile', outFile)
Written == SubSeq(outFile', Len(outFile) + 1, Len(outFile'))
NoError == pc' = "loop" /\ err' = ""

\* The line the loop has just left behind.
Stepped == pc = "loop" /\ idx > 1
Prev == Content(lines[idx - 1])

\* Number of the first k lines that do not begin with "#".
Qualifying(k) == Cardinality({i \in 1..k : ~BeginsWithHash(Content(lines[i]))})

HasLower(s) == \E i \in 1..Len(s) : UpperCased(s)[i] # s[i]

(***************************************************************************)
(* Properties                                                              *)
(***************************************************************************)

\* C1: a line that matches the declaration-open pattern with an explicit
\* numeric length makes the loop write exactly the one line
\* "pub const <NAME>: [<mapped type>; <digits>] = [", with the digits of the
\* input verbatim and NAME the upper-cased identifier (an identifier that is
\* already upper-case is written as it is).
C1_DeclWithLength ==
    [][ (Step /\ ReMatch(Cur).ok /\ ReMatch(Cur).size # <<>>) =>
          LET m == ReMatch(Cur)
          IN  /\ Appends
              /\ Written = PubConst(UpperCased(m.name), MappedType(m.ctype), m.size)
                           \o Chars("\n")
              /\ (~HasLower(m.name) =>
                    Written = PubConst(m.name, MappedType(m.ctype), m.size)
                              \o Chars("\n")) ]_vars

C1_Witness ==
    /\ Stepped
    /\ ReMatch(Prev).ok
    /\ ReMatch(Prev).size = Chars("378")
    /\ HasLower(ReMatch(Prev).name)
    /\ NumLines(outFile) = NumLines(Header) + 1

\* C2: on a declaration-open line the element type written is the entry of
\* the fixed table for a recognized token (exact, case-sensitive match) and
\* u32 for every other token, and no error is raised.
C2_TypeMapping ==
    [][ (Step /\ ReMatch(Cur).ok) =>
          LET tok == ReMatch(Cur).ctype
          IN  /\ Appends
              /\ NoError
              /\ \A e \in TypeTable :
                    tok = Chars(e[1]) => TypeField(Written) = Chars(e[2])
              /\ ~Recognized(tok) => TypeField(Written) = Chars("u32") ]_vars

C2_Witness ==
    /\ Stepped
    /\ ReMatch(Prev).ok
    /\ ReMatch(Prev).ctype = Chars("int16_t")
    /\ err = ""

C2_WitnessDefault ==
    /\ Stepped
    /\ ReMatch(Prev).ok
    /\ ReMatch(Prev).ctype = Chars("UINT8_T")
    /\ err = ""

\* A line that falls under none of rules 1-4: it does not begin with "#", is
\* not blank, is no declaration-open line and its trimmed content is not "};".
DataLine(c) ==
    /\ ~BeginsWithHash(c)
    /\ ~AllSpace(c)
    /\ ~ReMatch(c).ok
    /\ Trim(c) # Chars("};")

\* C3 as stated: a data line is written byte for byte, trailing white space
\* included.
C3_Verbatim ==
    [][ (Step /\ DataLine(Cur)) => (Appends /\ Written = Cur \o Chars("\n")) ]_vars

\* C3 amended: a data line is written without its trailing white space and
\* otherwise byte for byte (leading and inner white space and punctuation
\* are kept).
C3_VerbatimButTrailing ==
    [][ (Step /\ DataLine(Cur)) =>
          (Appends /\ Written = TrailTrim(Cur) \o Chars("\n")) ]_vars

C3_Witness ==
    /\ Stepped
    /\ DataLine(Prev)
    /\ TrailTrim(Prev) # Prev
    /\ LeadTrim(Prev) # Prev

C3_WitnessTrailing ==
    /\ Stepped
    /\ DataLine(Prev)
    /\ Prev = Chars("1, ")

\* C4 as stated: a line whose content without leading and trailing white
\* space is "};" is rewritten to the one line "];".
C4_CloseTrimmed ==
    [][ (Step /\ Trim(Cur) = Chars("};")) =>
          (Appends /\ Written = Chars("];\n")) ]_vars

\* C4 amended: a line whose content without trailing white space is "};" is
\* rewritten to the one line "];".
C4_CloseAtLineStart ==
    [][ (Step /\ TrailTrim(Cur) = Chars("};")) =>
          (Appends /\ Written = Chars("];\n")) ]_vars

C4_Witness ==
    /\ Stepped
    /\ Prev = Chars("}; ")
    /\ NumLines(outFile) = NumLines(Header) + Qualifying(idx - 1)

\* C5: a line beginning with "#" writes nothing, every other line writes
\* exactly one line (a blank one exactly an empty line), and so the number of
\* lines after the header is the number of input lines minus the number of
\* those beginning with "#".
C5_LineCount ==
    /\ [][ Step =>
             /\ Appends
             /\ BeginsWithHash(Cur) => Written = <<>>
             /\ ~BeginsWithHash(Cur) =>
                   /\ NumLines(Written) = 1
                   /\ Written[Len(Written)] = "\n"
             /\ (~BeginsWithHash(Cur) /\ AllSpace(Cur)) => Written = Chars("\n") ]_vars
    /\ [](pc = "done" =>
            NumLines(outFile) - NumLines(Header) =
               Len(lines) - Cardinality({i \in 1..Len(lines) :
                                            BeginsWithHash(Content(lines[i]))}))

C5_Witness ==
    /\ pc = "done"
    /\ Len(lines) = 3
    /\ BeginsWithHash(Content(lines[1]))
    /\ AllSpace(Content(lines[2]))
    /\ DataLine(Content(lines[3]))
    /\ NumLines(outFile) = NumLines(Header) + 2

Directives == <<Chars("#![allow(dead_code)]"), Chars("#![allow(non_upper_case_globals)]")>>

ScenarioInput == FileText(ScenarioLines, TRUE)

\* C6 as stated: the output is the two directive lines followed directly by
\* the rewritten lines, one per line not beginning with "#"; the example
\* yields the two directives, the three rewritten lines and nothing else.
C6_TwoDirectivesThenBody ==
    pc = "done" =>
       /\ StartsWith(outFile, Directives[1] \o Chars("\n") \o Directives[2] \o Chars("\n"))
       /\ NumLines(outFile) = Len(Directives) + Qualifying(Len(lines))
       /\ inputText = ScenarioInput =>
             outFile = Directives[1] \o Chars("\n") \o Directives[2] \o Chars("\n")
                       \o Chars("pub const CASE_CONV_TABLE1: [u8; 378] = [\n")
                       \o Chars("1,2,3,\n") \o Chars("];\n")

\* C6 amended: the output is the two directive lines, one empty line, and
\* then the rewritten lines, one per line not beginning with "#"; the example
\* yields the two directives, the empty line, the three rewritten lines and
\* nothing else.
C6_DirectivesBlankThenBody ==
    pc = "done" =>
       /\ StartsWith(outFile, Directives[1] \o Chars("\n") \o Directives[2] \o Chars("\n")
                              \o Chars("\n"))
       /\ NumLines(outFile) = Len(Directives) + 1 + Qualifying(Len(lines))
       /\ inputText = ScenarioInput =>
             outFile = Directives[1] \o Chars("\n") \o Directives[2] \o Chars("\n")
                       \o Chars("\n")
                       \o Chars("pub const CASE_CONV_TABLE1: [u8; 378] = [\n")
                       \o Chars("1,2,3,\n") \o Chars("];\n")

C6_Witness == pc = "done" /\ inputText = ScenarioInput /\ Len(lines) = 3

\* C7: when the input is missing or unreadable the run fails with the output
\* resource as it was before; in every run the output resource changes only
\* once the whole input is held in lines.
C7_ReadBeforeWrite ==
    /\ []((pc = "failed" /\ err \in {"input missing", "input unreadable"}) =>
            outFile = OldContent)
    /\ [][ outFile' # outFile =>
             /\ pc \in {"read", "header", "loop"}
             /\ Concat(lines) = inputText ]_vars

C7_Witness == pc = "failed" /\ err = "input missing" /\ outFile = OldContent

C7_WitnessOrder == pc = "header" /\ outFile = <<>> /\ Len(lines) = 3

\* C8: a declaration-open line without a bound raises no error and writes the
\* one line "pub const <NAME>: [<mapped type>; _] = [".
C8_MissingLength ==
    [][ (Step /\ ReMatch(Cur).ok /\ ReMatch(Cur).size = <<>>) =>
          LET m == ReMatch(Cur)
          IN  /\ Appends
              /\ NoError
              /\ Written = PubConst(UpperCased(m.name), MappedType(m.ctype), Chars("_"))
                           \o Chars("\n") ]_vars

C8_Witness ==
    /\ Stepped
    /\ ReMatch(Prev).ok
    /\ ReMatch(Prev).size = <<>>
    /\ ReMatch(Prev).ctype = Chars("int8_t")
    /\ err = ""

\* An array body is open after the first k lines.
OpenAfter(k) ==
    \E j \in 1..k :
       /\ ReMatch(Content(lines[j])).ok
       /\ \A i \in (j + 1)..k : TrailTrim(Content(lines[i])) # Chars("};")

\* C9: after the first k lines the output is the header followed by the
\* images of those k lines in input order, the image of a line being a
\* function of its own text (whether or not an array body is open).
C9_ForwardPass ==
    pc \in {"loop", "done"} =>
       outFile = Header \o Concat([i \in 1..(idx - 1) |-> Image(Content(lines[i]))])

C9_Witness ==
    /\ Stepped
    /\ idx = 4
    /\ Content(lines[1]) = Chars("};")
    /\ ~OpenAfter(0)
    /\ OpenAfter(2)
    /\ BeginsWithHash(Content(lines[3]))

\* C10: on a line that the pattern matches as a prefix, what is written is
\* what would be written for the line cut after the "{"; a declaration behind
\* leading white space is written as a data line.
C10_AnchoredAtStart ==
    [][ Step =>
          /\ ReMatch(Cur).ok =>
                (Appends /\ Written = Image(SubSeq(Cur, 1, ReMatch(Cur).end)))
          /\ (LeadTrim(Cur) # Cur /\ ReMatch(LeadTrim(Cur)).ok) =>
                (Appends /\ Written = TrailTrim(Cur) \o Chars("\n")) ]_vars

C10_Witness ==
    /\ Stepped
    /\ ReMatch(Prev).ok
    /\ ReMatch(Prev).end < Len(TrailTrim(Prev))

C10_WitnessIndented ==
    /\ Stepped
    /\ LeadTrim(Prev) # Prev
    /\ ReMatch(LeadTrim(Prev)).ok
=============================================================================
